---- MODULE Spec2Model ----
(***************************************************************************)
(* A model of cpplumber: the string-literal transcoder                     *)
(* (src/src/information_leak.rs) and the leak-detection pipeline of main   *)
(* (src/src/main.rs).                                                      *)
(*                                                                         *)
(* A Rust `char` is modelled by its code point (a natural number), a       *)
(* `str`/`String` by the sequence of its chars, a Vec<u8> by a sequence    *)
(* of numbers in 0..255.  Rust indexes a `str` by BYTE offset, so the      *)
(* byte width of every char is kept (Utf8Width) and slicing is done on     *)
(* byte offsets (StrSlice), with the panics Rust raises.                   *)
(* A panic (unwrap on None/Err, unreachable!, a bad slice, windows(0))     *)
(* is the result [tag |-> "Panic"]: it unwinds through main and aborts     *)
(* the process.                                                            *)
(***************************************************************************)
EXTENDS Integers, Sequences, FiniteSets, TLC

VARIABLES
    \* ---- the transcoder, run on its own (SpecTranscode)
    token,            \* the literal token given to string_literal_to_bytes
    resolved,         \* what process_escape_sequences returned for its body
    bytes,            \* what string_literal_to_bytes returned
    tpc,              \* "input" before the call, "done" after it
    \* ---- the pipeline of main (Spec)
    options,          \* CpplumberOptions: the two flags main reads
    suppressions,     \* Option<Suppressions>
    sources,          \* the literal texts written in the project's files
    compile_commands, \* CompileCommands still to be parsed
    potential_leaks,  \* Vec<PotentialLeak> / HashSet<PotentialLeak>
    admitted,         \* potential_leaks as handed to the merge step
    merged,           \* TRUE once potential_leaks is the HashSet
    bin_data,         \* the bytes of the binary file
    scanned,          \* indices of potential_leaks the scan visited, in order
    leaks,            \* Vec<ConfirmedLeak> collected so far
    pc,               \* position of main
    panic_in          \* the function that panicked, "" while none did

tvars == <<token, resolved, bytes, tpc>>
pvars == <<options, suppressions, sources, compile_commands, potential_leaks,
           admitted, merged, bin_data, scanned, leaks, pc, panic_in>>
vars == <<token, resolved, bytes, tpc, options, suppressions, sources,
          compile_commands, potential_leaks, admitted, merged, bin_data,
          scanned, leaks, pc, panic_in>>

-----------------------------------------------------------------------------
(* Bounds of the model.                                                    *)

\* the body of a literal is a concatenation of at most MaxSegs segments
MaxSegs == 3
\* the binary file holds at most MaxBinLen bytes
MaxBinLen == 4

-----------------------------------------------------------------------------
(* Characters.                                                             *)

QUOTE == 34
BACKSLASH == 92
SPACE == 32
CH_PLUS == 43
CH_0 == 48
CH_1 == 49
CH_2 == 50
CH_7 == 55
CH_8 == 56
CH_L == 76
CH_U == 85
CH_a == 97
CH_b == 98
CH_f == 102
CH_n == 110
CH_r == 114
CH_t == 116
CH_u == 117
CH_v == 118
\* chars that occur only in the literals the model is run on: 'x', 'R' and
\* U+00E9, a char of two bytes in UTF-8
Ch == [x |-> 120, R |-> 82, eacute |-> 233]
\* c_string
STR_c_string == <<99, 95, 115, 116, 114, 105, 110, 103>>

-----------------------------------------------------------------------------
(* Results.                                                                *)

Panic == [tag |-> "Panic", val |-> <<>>]
None == [tag |-> "None", val |-> <<>>]
Some(v) == [tag |-> "Some", val |-> v]
Ok(v) == [tag |-> "Ok", val |-> v]

-----------------------------------------------------------------------------
(* str: UTF-8 layout and byte-offset slicing.                              *)

Utf8Width(c) ==
    IF c < 128 THEN 1 ELSE IF c < 2048 THEN 2 ELSE IF c < 65536 THEN 3 ELSE 4

Utf8(c) ==
    IF c < 128 THEN <<c>>
    ELSE IF c < 2048 THEN <<192 + (c \div 64), 128 + (c % 64)>>
    ELSE IF c < 65536 THEN
        <<224 + (c \div 4096), 128 + ((c \div 64) % 64), 128 + (c % 64)>>
    ELSE <<240 + (c \div 262144), 128 + ((c \div 4096) % 64),
           128 + ((c \div 64) % 64), 128 + (c % 64)>>

RECURSIVE as_bytes(_)
as_bytes(s) ==
    IF s = <<>> THEN <<>> ELSE Utf8(Head(s)) \o as_bytes(Tail(s))

\* str::len: the length in bytes
RECURSIVE ByteLen(_)
ByteLen(s) ==
    IF s = <<>> THEN 0 ELSE Utf8Width(Head(s)) + ByteLen(Tail(s))

\* the byte offset at which the char of 0-based index k starts
ByteOffset(s, k) == ByteLen(SubSeq(s, 1, k))

IsCharBoundary(s, i) == \E k \in 0..Len(s) : ByteOffset(s, k) = i

CharIndex(s, i) == CHOOSE k \in 0..Len(s) : ByteOffset(s, k) = i

\* &s[from..to]: panics unless from <= to <= len and both are char boundaries
StrSlice(s, from, to) ==
    IF from <= to /\ to <= ByteLen(s)
       /\ IsCharBoundary(s, from) /\ IsCharBoundary(s, to)
    THEN Ok(SubSeq(s, CharIndex(s, from) + 1, CharIndex(s, to)))
    ELSE Panic

-----------------------------------------------------------------------------
(* process_escape_sequences                                                *)

\* char::is_digit(8)
IsOctalDigit(c) == c \in CH_0..CH_7

RECURSIVE OctalValue(_)
OctalValue(ds) ==
    IF ds = <<>> THEN 0
    ELSE 8 * OctalValue(SubSeq(ds, 1, Len(ds) - 1)) + (ds[Len(ds)] - CH_0)

\* u8::from_str_radix(src, 8): an optional '+', then one or more octal digits,
\* the value at most u8::MAX
u8_from_str_radix(src) ==
    LET digits == IF src # <<>> /\ Head(src) = CH_PLUS /\ Len(src) > 1
                  THEN Tail(src) ELSE src
    IN IF digits # <<>>
          /\ (\A i \in 1..Len(digits) : IsOctalDigit(digits[i]))
          /\ OctalValue(digits) <= 255
       THEN Ok(OctalValue(digits))
       ELSE [tag |-> "Err", val |-> 0]

IsSimpleEscape(c) ==
    c \in {CH_a, CH_b, CH_t, CH_n, CH_v, CH_f, CH_r, SPACE, BACKSLASH}

\* the char pushed by the match arm of a simple escape sequence
SimpleEscape(c) ==
    CASE c = CH_a -> 7
      [] c = CH_b -> 8
      [] c = CH_t -> 9
      [] c = CH_n -> 10
      [] c = CH_v -> 11
      [] c = CH_f -> 12
      [] c = CH_r -> 13
      [] c = SPACE -> SPACE
      [] c = BACKSLASH -> BACKSLASH

\* end_position of an octal escape whose first digit is the char of index
\* start_position; the second and the third char are tested independently
OctalEnd(string, start_position) ==
    (start_position + 1)
    + (IF start_position + 2 <= Len(string)
          /\ IsOctalDigit(string[start_position + 2]) THEN 1 ELSE 0)
    + (IF start_position + 3 <= Len(string)
          /\ IsOctalDigit(string[start_position + 3]) THEN 1 ELSE 0)

\* the loop `for (position, char) in string.chars().enumerate()`, from the
\* iteration of index position on; owned is Option<String>
RECURSIVE EscapeLoop(_, _, _, _)
EscapeLoop(string, position, owned, skip_until) ==
    IF position >= Len(string)
    THEN Some(IF owned.tag = "Some" THEN owned.val ELSE string)
    ELSE
    LET char == string[position + 1] IN
    IF position <= skip_until
    THEN EscapeLoop(string, position + 1, owned, skip_until)
    ELSE IF char = BACKSLASH
    THEN
        LET prefix == StrSlice(string, 0, position) IN
        IF owned.tag = "None" /\ prefix.tag = "Panic" THEN Panic
        ELSE
        LET b == IF owned.tag = "None" THEN prefix.val ELSE owned.val IN
        IF position + 2 > Len(string) THEN None
        ELSE
        LET first_char == string[position + 2] IN
        IF IsSimpleEscape(first_char)
        THEN EscapeLoop(string, position + 1,
                        Some(Append(b, SimpleEscape(first_char))), position + 1)
        ELSE IF IsOctalDigit(first_char)
        THEN
            LET start_position == position + 1
                end_position == OctalEnd(string, start_position)
                digits == StrSlice(string, start_position, end_position)
                octal_value == IF digits.tag = "Ok"
                               THEN u8_from_str_radix(digits.val)
                               ELSE Panic
            IN IF octal_value.tag # "Ok" THEN Panic
               ELSE EscapeLoop(string, position + 1,
                               Some(Append(b, octal_value.val)), end_position)
        ELSE EscapeLoop(string, position + 1, Some(Append(b, first_char)),
                        position + 1)
    ELSE EscapeLoop(string, position + 1,
                    IF owned.tag = "Some" THEN Some(Append(owned.val, char))
                    ELSE owned,
                    skip_until)

process_escape_sequences(string) == EscapeLoop(string, 0, None, 0)

-----------------------------------------------------------------------------
(* string_literal_to_bytes                                                 *)

\* widestring::encode_utf16 of one char
Utf16Units(c) ==
    IF c < 65536 THEN <<c>>
    ELSE <<55296 + ((c - 65536) \div 1024), 56320 + ((c - 65536) % 1024)>>

u16_to_le_bytes(u) == <<u % 256, u \div 256>>

u32_to_le_bytes(u) ==
    <<u % 256, (u \div 256) % 256, (u \div 65536) % 256, u \div 16777216>>

RECURSIVE encode_utf16_le(_)
encode_utf16_le(s) ==
    IF s = <<>> THEN <<>>
    ELSE LET us == Utf16Units(Head(s)) IN
         (IF Len(us) = 1 THEN u16_to_le_bytes(us[1])
          ELSE u16_to_le_bytes(us[1]) \o u16_to_le_bytes(us[2]))
         \o encode_utf16_le(Tail(s))

RECURSIVE encode_utf32_le(_)
encode_utf32_le(s) ==
    IF s = <<>> THEN <<>>
    ELSE u32_to_le_bytes(Head(s)) \o encode_utf32_le(Tail(s))

\* PrefixLen with the u8 arm stripping two bytes, as the u arm does
PrefixLen_u8_as_u(string_literal) ==
    LET first_char == string_literal[1] IN
    CASE first_char = QUOTE -> 1
      [] first_char = CH_L -> 2
      [] first_char = CH_U -> 2
      [] first_char = CH_u -> IF Len(string_literal) < 3 THEN -2 ELSE 2
      [] OTHER -> -1

\* the number of prefix bytes (the opening quote included) that the match
\* arm taken for string_literal strips; -1 for the unreachable!() arm.  The
\* 'u' arm unwraps the second and the third char: -2 when one is missing.
PrefixLen(string_literal) ==
    LET first_char == string_literal[1] IN
    CASE first_char = QUOTE -> 1
      [] first_char = CH_L -> 2
      [] first_char = CH_U -> 2
      [] first_char = CH_u ->
            IF Len(string_literal) < 3 THEN -2
            ELSE IF string_literal[2] = CH_8 /\ string_literal[3] = QUOTE
            THEN 3 ELSE 2
      [] OTHER -> -1

\* the encoding of the match arm taken for string_literal
Encoding(string_literal) ==
    LET first_char == string_literal[1] IN
    CASE first_char = QUOTE -> "utf8"
      [] first_char = CH_L -> "utf16le"
      [] first_char = CH_U -> "utf32le"
      [] first_char = CH_u ->
            IF Len(string_literal) >= 3
               /\ string_literal[2] = CH_8 /\ string_literal[3] = QUOTE
            THEN "utf8" ELSE "utf16le"
      [] OTHER -> "none"

Encode(encoding, s) ==
    CASE encoding = "utf8" -> as_bytes(s)
      [] encoding = "utf16le" -> encode_utf16_le(s)
      [] encoding = "utf32le" -> encode_utf32_le(s)

\* the escaped body the match arm hands to process_escape_sequences:
\* &string_literal[n..string_literal.len() - 1]
LiteralBody(string_literal) ==
    IF string_literal = <<>> \/ PrefixLen(string_literal) < 0 THEN Panic
    ELSE StrSlice(string_literal, PrefixLen(string_literal),
                  ByteLen(string_literal) - 1)

\* the value of process_escape_sequences(..) inside string_literal_to_bytes:
\* None when the empty token returns before any call, Panic when the
\* function panics before the call returns
ResolvedBody(string_literal) ==
    IF string_literal = <<>> THEN None
    ELSE LET body == LiteralBody(string_literal) IN
         IF body.tag = "Ok" THEN process_escape_sequences(body.val) ELSE body

string_literal_to_bytes(string_literal) ==
    IF string_literal = <<>> THEN Ok(<<>>)
    ELSE
    LET r == ResolvedBody(string_literal) IN
    \* .unwrap() panics on None
    IF r.tag # "Some" THEN Panic
    ELSE Ok(Encode(Encoding(string_literal), r.val))

-----------------------------------------------------------------------------
(* The literal tokens the transcoder is run on.                            *)

Segments ==
    { <<CH_a>>, <<CH_b>>, <<BACKSLASH>>, <<CH_1>>, <<Ch.eacute>>,
      <<BACKSLASH, CH_t>>,
      <<BACKSLASH, CH_1, CH_0, CH_1>>,
      <<BACKSLASH, CH_7, CH_7, CH_7>>,
      <<BACKSLASH, CH_1, Ch.x, CH_2>>,
      STR_c_string }

RECURSIVE Bodies(_)
Bodies(n) ==
    IF n = 0 THEN { <<>> }
    ELSE Bodies(n - 1) \cup { b \o s : b \in Bodies(n - 1), s \in Segments }

\* no prefix, L, u8, u, U, and a prefix the standard does not have
Prefixes == { <<>>, <<CH_L>>, <<CH_u, CH_8>>, <<CH_u>>, <<CH_U>>, <<Ch.R>> }

Quoted(prefix, body) == prefix \o <<QUOTE>> \o body \o <<QUOTE>>

Literals ==
    { <<>> } \cup { Quoted(p, b) : p \in Prefixes, b \in Bodies(MaxSegs) }

TInit ==
    /\ token \in Literals
    /\ resolved = None
    /\ bytes = None
    /\ tpc = "input"

\* one call of string_literal_to_bytes
Transcode ==
    /\ tpc = "input"
    /\ resolved' = ResolvedBody(token)
    /\ bytes' = string_literal_to_bytes(token)
    /\ tpc' = "done"
    /\ UNCHANGED token

PIdle ==
    /\ options = [report_system_headers |-> FALSE,
                  ignore_multiple_declarations |-> FALSE]
    /\ suppressions = None
    /\ sources = <<>>
    /\ compile_commands = <<>>
    /\ potential_leaks = <<>>
    /\ admitted = <<>>
    /\ merged = FALSE
    /\ bin_data = <<>>
    /\ scanned = <<>>
    /\ leaks = <<>>
    /\ pc = "idle"
    /\ panic_in = ""

InitTranscode == TInit /\ PIdle

NextTranscode == Transcode /\ UNCHANGED pvars

SpecTranscode == InitTranscode /\ [][NextTranscode]_vars

-----------------------------------------------------------------------------
(* The project main runs on: what its collaborators (the compilation       *)
(* database, libclang, the glob crate) hand to the code of main.rs.        *)

ProjectDir == "proj"

\* A file name is the pair of its stem and its extension, a path the pair of
\* its directory and its file name: proj/main.cc is <<"proj", <<"main", "cc">>>>.
FileName(stem, extension) == <<stem, extension>>

\* PathBuf::join(directory, filename)
PathJoin(directory, filename) == <<directory, filename>>

MainCc == PathJoin(ProjectDir, FileName("main", "cc"))
OtherCc == PathJoin(ProjectDir, FileName("other", "cc"))
HeaderH == PathJoin(ProjectDir, FileName("header", "h"))
SysH == PathJoin("usr_include", FileName("sys", "h"))

\* the literal of the system header
LIT_SYS == Quoted(<<>>, <<CH_a, CH_b, CH_b, CH_a>>)
LIT_B == Quoted(<<>>, <<CH_b>>)
LIT_AB == Quoted(<<>>, <<CH_a, CH_b>>)
LIT_BA == Quoted(<<>>, <<CH_b, CH_a>>)
\* ""
LIT_EMPTY == Quoted(<<>>, <<>>)
\* a token whose escaped body ends in a backslash
LIT_BAD == Quoted(<<>>, <<CH_b, BACKSLASH>>)

\* A glob pattern over such paths is the triple of its directory part, its
\* stem part and its extension part: **/*.h is <<"**", "*", "h">>,
\* proj/other.cc is <<"proj", "other", "cc">>.  A part that is a wildcard
\* ("**" or "*" for the directory, "*" for stem and extension) matches any
\* name, any other part matches the name equal to it.
GlobPattern(directory, stem, extension) == <<directory, stem, extension>>

\* glob::Pattern::matches
PatternMatches(pattern, path) ==
    /\ pattern[1] \in {"**", "*"} \/ pattern[1] = path[1]
    /\ pattern[2] = "*" \/ pattern[2] = path[2][1]
    /\ pattern[3] = "*" \/ pattern[3] = path[2][2]

\* **/*.h, **/*.cc and proj/other.cc
AnyHeader == GlobPattern("**", "*", "h")
AnySource == GlobPattern("**", "*", "cc")
ProjOtherCc == GlobPattern("proj", "other", "cc")

StringLiteral(text, file, line, sys) ==
    [kind |-> "StringLiteral", display_name |-> text, file |-> file,
     line |-> line, in_system_header |-> sys, children |-> <<>>]

Declaration(file, line, sys, children) ==
    [kind |-> "FunctionDecl", display_name |-> <<>>, file |-> file,
     line |-> line, in_system_header |-> sys, children |-> children]

\* translation_unit.get_entity() of the parsed file: main.cc includes
\* header.h and the system header sys.h, other.cc includes header.h
TranslationUnit(file_path, src) ==
    LET header == Declaration(HeaderH, 1, FALSE,
                              <<StringLiteral(LIT_BA, HeaderH, 1, FALSE)>>)
        system == Declaration(SysH, 7, TRUE,
                              <<StringLiteral(LIT_SYS, SysH, 7, TRUE)>>)
    IN [kind |-> "TranslationUnit", display_name |-> <<>>, file |-> file_path,
        line |-> 0, in_system_header |-> FALSE,
        children |->
          IF file_path = MainCc
          THEN <<header, system,
                 Declaration(MainCc, 2, FALSE,
                             <<StringLiteral(src.main, MainCc, 3, FALSE)>>)>>
          ELSE <<header,
                 Declaration(OtherCc, 4, FALSE,
                             <<StringLiteral(src.other, OtherCc, 5, FALSE)>>)>>]

-----------------------------------------------------------------------------
(* main.rs                                                                 *)

RECURSIVE gather_entities_by_kind_rec(_, _, _, _)
RECURSIVE GatherChildren(_, _, _, _)
\* the loop `for child in root_entity.get_children()`
GatherChildren(children, entity_kind_filter, ignore_system_headers, depth) ==
    IF children = <<>> THEN <<>>
    ELSE LET child == Head(children) IN
         (IF ignore_system_headers /\ child.in_system_header THEN <<>>
          ELSE gather_entities_by_kind_rec(child, entity_kind_filter,
                                           ignore_system_headers, depth))
         \o GatherChildren(Tail(children), entity_kind_filter,
                           ignore_system_headers, depth)

gather_entities_by_kind_rec(root_entity, entity_kind_filter, ignore_system_headers, current_depth) ==
    (IF root_entity.kind \in entity_kind_filter THEN <<root_entity>> ELSE <<>>)
    \o GatherChildren(root_entity.children, entity_kind_filter,
                      ignore_system_headers, current_depth + 1)

gather_entities_by_kind(root_entity, entity_kind_filter, ignore_system_headers) ==
    gather_entities_by_kind_rec(root_entity, entity_kind_filter,
                                ignore_system_headers, 0)

\* TryFrom<Entity> for InformationLeakDescription
try_from(entity) ==
    IF entity.kind = "StringLiteral"
    THEN LET b == string_literal_to_bytes(entity.display_name) IN
         IF b.tag = "Panic" THEN Panic
         ELSE Ok([leaked_information |-> entity.display_name,
                  bytes |-> b.val,
                  declaration_metadata |-> <<entity.file, entity.line>>])
    ELSE [tag |-> "Err", val |-> <<>>]

\* the argument main passes as ignore_system_headers
IgnoreSystemHeaders(opts) == opts.report_system_headers

\* the closure of filter_suppressed_files: TRUE when the command is kept
KeepCompileCommand(compile_cmd, sup) ==
    LET file_path == PathJoin(compile_cmd.directory, compile_cmd.filename) IN
    ~(\E pattern \in sup.files : PatternMatches(pattern, file_path))

filter_suppressed_files(compile_cmds, sup) ==
    IF sup.tag = "Some"
    THEN SelectSeq(compile_cmds, LAMBDA c : KeepCompileCommand(c, sup.val))
    ELSE compile_cmds

filter_suppressed_artifacts(pleaks, sup) ==
    IF sup.tag = "Some"
    THEN SelectSeq(pleaks,
                   LAMBDA leak : leak.leaked_information \notin sup.val.artifacts)
    ELSE pleaks

\* PartialEq for InformationLeakDescription
leak_eq(self, other) == self.leaked_information = other.leaked_information

\* hashset_insert replacing the value already held by the new one
hashset_insert_replace(set, value) ==
    IF \E i \in 1..Len(set) : leak_eq(set[i], value)
    THEN [i \in 1..Len(set) |-> IF leak_eq(set[i], value) THEN value ELSE set[i]]
    ELSE Append(set, value)

\* HashSet::insert: a value equal to one already held is not inserted
hashset_insert(set, value) ==
    IF \E i \in 1..Len(set) : leak_eq(set[i], value) THEN set
    ELSE Append(set, value)

\* HashSet::from_iter; the elements are kept in a sequence whose order is
\* NOT the (unspecified) iteration order: see ScanLeak
RECURSIVE hashset_from_iter(_, _)
hashset_from_iter(set, pleaks) ==
    IF pleaks = <<>> THEN set
    ELSE hashset_from_iter(hashset_insert(set, Head(pleaks)), Tail(pleaks))

\* windows_position reporting the last matching window (rposition)
windows_rposition(data, pattern) ==
    LET size == Len(pattern)
        hits == { o \in 0..(Len(data) - size) :
                    SubSeq(data, o + 1, o + size) = pattern }
    IN IF size = 0 THEN Panic
       ELSE IF hits = {} THEN None
       ELSE Some(CHOOSE o \in hits : \A o2 \in hits : o >= o2)

\* bin_data.windows(size).position(|window| window == pattern)
windows_position(data, pattern) ==
    LET size == Len(pattern)
        hits == { o \in 0..(Len(data) - size) :
                    SubSeq(data, o + 1, o + size) = pattern }
    IN IF size = 0 THEN Panic
       ELSE IF hits = {} THEN None
       ELSE Some(CHOOSE o \in hits : \A o2 \in hits : o <= o2)

BinaryFilePath == PathJoin(ProjectDir, FileName("a", "out"))

ConfirmedLeak(leak, offset) ==
    [leaked_information |-> leak.leaked_information,
     location |-> [source |-> leak.declaration_metadata,
                   binary |-> [file |-> BinaryFilePath, offset |-> offset]]]

-----------------------------------------------------------------------------
(* The runs of main.                                                       *)

RECURSIVE SeqsUpTo(_, _)
SeqsUpTo(S, n) ==
    IF n = 0 THEN { <<>> }
    ELSE SeqsUpTo(S, n - 1)
         \cup { Append(q, x) : q \in SeqsUpTo(S, n - 1), x \in S }

SuppressionLists ==
    { None,
      Some([files |-> {AnyHeader}, artifacts |-> {}]),
      Some([files |-> {ProjOtherCc}, artifacts |-> {}]),
      Some([files |-> {AnySource}, artifacts |-> {}]),
      Some([files |-> {}, artifacts |-> {LIT_AB}]),
      Some([files |-> {ProjOtherCc}, artifacts |-> {LIT_AB}]) }

CompileCommand(filename) ==
    [directory |-> ProjectDir, filename |-> filename, arguments |-> <<>>]

PInit ==
    /\ options \in [report_system_headers : BOOLEAN,
                    ignore_multiple_declarations : BOOLEAN]
    /\ suppressions \in SuppressionLists
    /\ sources \in [main : {LIT_AB, LIT_EMPTY, LIT_BAD}, other : {LIT_AB, LIT_B}]
    /\ compile_commands = <<CompileCommand(FileName("main", "cc")), CompileCommand(FileName("other", "cc"))>>
    /\ potential_leaks = <<>>
    /\ admitted = <<>>
    /\ merged = FALSE
    /\ bin_data \in SeqsUpTo({CH_a, CH_b}, MaxBinLen)
    /\ scanned = <<>>
    /\ leaks = <<>>
    /\ pc = "filter_files"
    /\ panic_in = ""

TIdle ==
    /\ token = <<>>
    /\ resolved = None
    /\ bytes = None
    /\ tpc = "idle"

\* main, lines 98-101
FilterSuppressedFiles ==
    /\ pc = "filter_files"
    /\ compile_commands' = filter_suppressed_files(compile_commands, suppressions)
    /\ pc' = "extract"
    /\ UNCHANGED <<options, suppressions, sources, potential_leaks, admitted,
                   merged, bin_data, scanned, leaks, panic_in>>

\* one iteration of `for compile_cmd in compile_commands` in
\* extract_artifacts_from_source_files
ExtractTranslationUnit ==
    /\ pc = "extract"
    /\ compile_commands # <<>>
    /\ LET compile_cmd == Head(compile_commands)
           file_path == PathJoin(compile_cmd.directory, compile_cmd.filename)
           string_literals ==
               gather_entities_by_kind(TranslationUnit(file_path, sources),
                                       {"StringLiteral"},
                                       IgnoreSystemHeaders(options))
           converted == [i \in 1..Len(string_literals) |->
                            try_from(string_literals[i])]
       IN IF \E i \in 1..Len(converted) : converted[i].tag = "Panic"
          THEN /\ pc' = "panicked"
               /\ panic_in' = "string_literal_to_bytes"
               /\ UNCHANGED <<compile_commands, potential_leaks>>
          ELSE /\ potential_leaks' =
                     potential_leaks
                     \o [i \in 1..Len(converted) |-> converted[i].val]
               /\ compile_commands' = Tail(compile_commands)
               /\ UNCHANGED <<pc, panic_in>>
    /\ UNCHANGED <<options, suppressions, sources, admitted, merged, bin_data,
                   scanned, leaks>>

\* main, lines 108-110
FilterSuppressedArtifacts ==
    /\ pc = "extract"
    /\ compile_commands = <<>>
    /\ potential_leaks' = filter_suppressed_artifacts(potential_leaks, suppressions)
    /\ admitted' = potential_leaks'
    /\ pc' = "merge"
    /\ UNCHANGED <<options, suppressions, sources, compile_commands, merged,
                   bin_data, scanned, leaks, panic_in>>

\* main, lines 116-118: the branch of --ignore-multiple-declarations
MergeDuplicates ==
    /\ pc = "merge"
    /\ options.ignore_multiple_declarations
    /\ potential_leaks' = hashset_from_iter(<<>>, potential_leaks)
    /\ merged' = TRUE
    /\ pc' = "scan"
    /\ UNCHANGED <<options, suppressions, sources, compile_commands, admitted,
                   bin_data, scanned, leaks, panic_in>>

\* main, lines 121-123
KeepDuplicates ==
    /\ pc = "merge"
    /\ ~options.ignore_multiple_declarations
    /\ pc' = "scan"
    /\ UNCHANGED <<options, suppressions, sources, compile_commands,
                   potential_leaks, admitted, merged, bin_data, scanned, leaks,
                   panic_in>>

Unscanned == { i \in 1..Len(potential_leaks) :
                 \A k \in 1..Len(scanned) : scanned[k] # i }

\* one call of the filter_map closure of find_leaks_in_binary_file.  A Vec
\* is iterated in order, a HashSet in an order the program does not choose.
ScanLeak ==
    /\ pc = "scan"
    /\ \E i \in Unscanned :
         /\ merged \/ \A j \in Unscanned : i <= j
         /\ LET leak == potential_leaks[i]
                found == windows_position(bin_data, leak.bytes)
            IN IF found.tag = "Panic"
               THEN /\ pc' = "panicked"
                    /\ panic_in' = "find_leaks_in_binary_file"
                    /\ UNCHANGED <<scanned, leaks>>
               ELSE /\ scanned' = Append(scanned, i)
                    /\ leaks' = IF found.tag = "Some"
                                THEN Append(leaks, ConfirmedLeak(leak, found.val))
                                ELSE leaks
                    /\ UNCHANGED <<pc, panic_in>>
    /\ UNCHANGED <<options, suppressions, sources, compile_commands,
                   potential_leaks, admitted, merged, bin_data>>

\* .collect() and the return of find_leaks_in_binary_file
ScanReturn ==
    /\ pc = "scan"
    /\ Unscanned = {}
    /\ pc' = "report"
    /\ UNCHANGED <<options, suppressions, sources, compile_commands,
                   potential_leaks, admitted, merged, bin_data, scanned, leaks,
                   panic_in>>

\* main, lines 127-130
ReportLeaks ==
    /\ pc = "report"
    /\ pc' = "done"
    /\ UNCHANGED <<options, suppressions, sources, compile_commands,
                   potential_leaks, admitted, merged, bin_data, scanned, leaks,
                   panic_in>>

Init == PInit /\ TIdle

Next ==
    \/ FilterSuppressedFiles /\ UNCHANGED tvars
    \/ ExtractTranslationUnit /\ UNCHANGED tvars
    \/ FilterSuppressedArtifacts /\ UNCHANGED tvars
    \/ MergeDuplicates /\ UNCHANGED tvars
    \/ KeepDuplicates /\ UNCHANGED tvars
    \/ ScanLeak /\ UNCHANGED tvars
    \/ ScanReturn /\ UNCHANGED tvars
    \/ ReportLeaks /\ UNCHANGED tvars

Spec == Init /\ [][Next]_vars

-----------------------------------------------------------------------------
(* Reference notions the properties below are stated with.                 *)

Min(S) == CHOOSE x \in S : \A y \in S : x <= y

\* the offsets at which a contiguous window of buf equals pat
MatchOffsets(buf, pat) ==
    { o \in 0..(Len(buf) - Len(pat)) : \A k \in 1..Len(pat) : buf[o + k] = pat[k] }

\* the candidates the scan has visited whose pattern occurs in the binary
MatchedScanned ==
    SelectSeq(scanned,
              LAMBDA i : MatchOffsets(bin_data, potential_leaks[i].bytes) # {})

AfterMerge == pc \in {"scan", "report", "done"}

\* C1: for every buffer and every candidate with non-empty bytes that the
\* scan has visited, the scan has emitted exactly one ConfirmedLeak for it,
\* at the lowest offset where a window of the buffer equals its bytes, if a
\* window matches, and none if no window matches (a pattern longer than the
\* buffer included); the ConfirmedLeaks come in the order of the visits.
C1_LowestOffset ==
    AfterMerge =>
        /\ pc \in {"report", "done"} =>
             \A i \in 1..Len(potential_leaks) :
                 \E k \in 1..Len(scanned) : scanned[k] = i
        /\ Len(leaks) = Len(MatchedScanned)
        /\ \A k \in 1..Len(leaks) :
             LET leak == potential_leaks[MatchedScanned[k]] IN
             /\ leak.bytes # <<>>
             /\ leaks[k].leaked_information = leak.leaked_information
             /\ leaks[k].location.source = leak.declaration_metadata
             /\ leaks[k].location.binary.offset
                  = Min(MatchOffsets(bin_data, leak.bytes))

\* a finished scan that met a pattern occurring twice, first at an offset
\* above 0, a pattern that fits the buffer and does not occur in it, and a
\* pattern longer than the buffer
C1_Witness ==
    /\ pc = "done"
    /\ \E k \in 1..Len(leaks) :
         /\ leaks[k].location.binary.offset > 0
         /\ Cardinality(MatchOffsets(bin_data,
                          potential_leaks[MatchedScanned[k]].bytes)) >= 2
    /\ \E k \in 1..Len(scanned) :
         /\ Len(potential_leaks[scanned[k]].bytes) <= Len(bin_data)
         /\ MatchOffsets(bin_data, potential_leaks[scanned[k]].bytes) = {}
    /\ \E k \in 1..Len(scanned) :
         Len(potential_leaks[scanned[k]].bytes) > Len(bin_data)

\* C2: a PotentialLeak whose bytes are empty is skipped by the scanner: the
\* scan does not fail on it, no ConfirmedLeak is produced for it, and once
\* the scan is over every other candidate has been visited.
C2_EmptyBytesSkipped ==
    /\ ~(pc = "panicked" /\ panic_in = "find_leaks_in_binary_file")
    /\ AfterMerge =>
         \A k \in 1..Len(leaks) :
             potential_leaks[MatchedScanned[k]].bytes # <<>>

\* the texts of the admitted occurrences
AdmittedTexts == { admitted[i].leaked_information : i \in 1..Len(admitted) }

FirstAdmitted(text) ==
    admitted[Min({ i \in 1..Len(admitted) : admitted[i].leaked_information = text })]

\* C3: with merging enabled the candidate set holds exactly one PotentialLeak
\* per distinct leaked_information of the admitted occurrences, carrying the
\* declaration_metadata of the first of them in encounter order; with
\* merging disabled every admitted occurrence is kept, in order.
C3_MergeKeepsFirst ==
    AfterMerge =>
        IF options.ignore_multiple_declarations
        THEN /\ \A i \in 1..Len(potential_leaks) :
                  potential_leaks[i].leaked_information \in AdmittedTexts
             /\ \A text \in AdmittedTexts :
                  /\ Cardinality({ i \in 1..Len(potential_leaks) :
                        potential_leaks[i].leaked_information = text }) = 1
                  /\ \A i \in 1..Len(potential_leaks) :
                        potential_leaks[i].leaked_information = text
                        => potential_leaks[i] = FirstAdmitted(text)
        ELSE potential_leaks = admitted

\* merging has dropped a later declaration of a text that was first declared
\* elsewhere
C3_Witness ==
    /\ pc = "scan"
    /\ merged
    /\ \E i, j \in 1..Len(admitted) :
         /\ i < j
         /\ admitted[i].leaked_information = admitted[j].leaked_information
         /\ admitted[i].declaration_metadata # admitted[j].declaration_metadata
    /\ Len(potential_leaks) < Len(admitted)

\* SuppressionMatcher.file_suppressed
FileSuppressed(path) ==
    /\ suppressions.tag = "Some"
    /\ \E pattern \in suppressions.val.files : PatternMatches(pattern, path)

ArtifactSuppressed(text) ==
    /\ suppressions.tag = "Some"
    /\ text \in suppressions.val.artifacts

AllCompileCommands == <<CompileCommand(FileName("main", "cc")), CompileCommand(FileName("other", "cc"))>>

\* the literal occurrences of the project that the code's own walk yields,
\* whichever translation unit they are reached from
ProjectOccurrences ==
    UNION { LET es == gather_entities_by_kind(
                          TranslationUnit(PathJoin(AllCompileCommands[t].directory,
                                                   AllCompileCommands[t].filename),
                                          sources),
                          {"StringLiteral"}, IgnoreSystemHeaders(options))
            IN { es[i] : i \in 1..Len(es) } : t \in 1..Len(AllCompileCommands) }

\* C4: an occurrence whose declaring file matches a suppressed file glob
\* contributes no PotentialLeak, whichever translation unit it was reached
\* from; and an occurrence declared in a file that is not suppressed is not
\* discarded because the translation unit including it is suppressed.
C4_SuppressionByDeclaringFile ==
    /\ \A i \in 1..Len(potential_leaks) :
         ~FileSuppressed(potential_leaks[i].declaration_metadata[1])
    /\ pc = "merge" =>
         \A e \in ProjectOccurrences :
             (~FileSuppressed(e.file) /\ ~ArtifactSuppressed(e.display_name))
             => \E i \in 1..Len(admitted) :
                   /\ admitted[i].leaked_information = e.display_name
                   /\ admitted[i].declaration_metadata = <<e.file, e.line>>

\* C5: a literal token that fails transcoding is dropped without aborting:
\* the failure does not escape the catalog builder, so the run is never
\* ended by string_literal_to_bytes.
C5_TranscodeFailureDropped ==
    ~(pc = "panicked" /\ panic_in = "string_literal_to_bytes")

\* C6: without --report-system-headers (include_system_headers false) no
\* occurrence in a system header becomes a PotentialLeak; with it, the
\* system-header occurrence of a parsed translation unit is admitted.
C6_SystemHeaderExclusion ==
    /\ ~options.report_system_headers =>
         \A i \in 1..Len(potential_leaks) :
             potential_leaks[i].declaration_metadata[1] # SysH
    /\ (options.report_system_headers /\ pc = "merge"
        /\ ~FileSuppressed(MainCc) /\ ~ArtifactSuppressed(LIT_SYS)) =>
         \E i \in 1..Len(admitted) :
             admitted[i].declaration_metadata[1] = SysH

-----------------------------------------------------------------------------
(* The transcoder.                                                         *)

ValidPrefixes == { <<>>, <<CH_L>>, <<CH_u, CH_8>>, <<CH_u>>, <<CH_U>> }

HasPrefix(t, p) ==
    /\ Len(t) >= Len(p) + 2
    /\ SubSeq(t, 1, Len(p)) = p
    /\ t[Len(p) + 1] = QUOTE
    /\ t[Len(t)] = QUOTE

IsLiteralToken(t) == \E p \in ValidPrefixes : HasPrefix(t, p)

TokenPrefix(t) == CHOOSE p \in ValidPrefixes : HasPrefix(t, p)

\* the escaped body: the token without its prefix and its quotes
TokenBody(t) == SubSeq(t, Len(TokenPrefix(t)) + 2, Len(t) - 1)

\* bytes per code unit of the encoding a prefix selects
UnitWidth(p) ==
    IF p \in { <<>>, <<CH_u, CH_8>> } THEN 1
    ELSE IF p \in { <<CH_L>>, <<CH_u>> } THEN 2 ELSE 4

Pow256(n) == IF n = 0 THEN 1 ELSE IF n = 1 THEN 256
             ELSE IF n = 2 THEN 65536 ELSE 16777216

\* little-endian code units of w bytes, for chars that fit one unit
LittleEndianUnits(s, w) ==
    [k \in 1..(w * Len(s)) |->
        (s[((k - 1) \div w) + 1] \div Pow256((k - 1) % w)) % 256]

\* UTF-8, for chars below U+0800
RECURSIVE RefUtf8(_)
RefUtf8(s) ==
    IF s = <<>> THEN <<>>
    ELSE LET c == s[Len(s)]
             init == RefUtf8(SubSeq(s, 1, Len(s) - 1))
         IN IF c <= 127 THEN Append(init, c)
            ELSE init \o <<192 + (c \div 64), 128 + (c % 64)>>

RefEncode(p, s) ==
    IF UnitWidth(p) = 1 THEN RefUtf8(s) ELSE LittleEndianUnits(s, UnitWidth(p))

Backslashes(body) == { i \in 1..Len(body) : body[i] = BACKSLASH }

Transcoded == tpc = "done" /\ IsLiteralToken(token)

\* C9: the output holds neither prefix nor quotes and its encoding is the
\* one the prefix selects: UTF-8 for no prefix and u8, 2-byte little-endian
\* UTF-16 units for L and u, 4-byte little-endian UTF-32 units for U, of the
\* resolved body (the body itself when it holds no backslash).
C9_EncodingByPrefix ==
    Transcoded =>
        /\ resolved.tag = "Some" =>
             bytes = Ok(RefEncode(TokenPrefix(token), resolved.val))
        /\ Backslashes(TokenBody(token)) = {} =>
             bytes = Ok(RefEncode(TokenPrefix(token), TokenBody(token)))
        /\ token = Quoted(<<>>, STR_c_string)
             => bytes = Ok(<<99, 95, 115, 116, 114, 105, 110, 103>>)
        /\ token = Quoted(<<CH_u, CH_8>>, <<CH_a, CH_b>>) => bytes = Ok(<<97, 98>>)
        /\ token = Quoted(<<CH_L>>, <<CH_a, CH_b>>) => bytes = Ok(<<97, 0, 98, 0>>)
        /\ token = Quoted(<<CH_U>>, <<CH_a>>) => bytes = Ok(<<97, 0, 0, 0>>)

\* L"..." with an escape and a two-byte char has been transcoded
C9_Witness ==
    /\ Transcoded
    /\ TokenPrefix(token) = <<CH_L>>
    /\ Backslashes(TokenBody(token)) # {}
    /\ resolved.tag = "Some"
    /\ Ch.eacute \in { resolved.val[i] : i \in 1..Len(resolved.val) }
    /\ bytes.tag = "Ok"
    /\ Len(bytes.val) = 2 * Len(resolved.val)

\* the length (1..3) of the maximal run of octal digits starting at body[i]
OctalRun(body, i) ==
    IF i + 1 <= Len(body) /\ IsOctalDigit(body[i + 1])
    THEN IF i + 2 <= Len(body) /\ IsOctalDigit(body[i + 2]) THEN 3 ELSE 2
    ELSE 1

\* the body with body[i..j] replaced by the single code unit v
Replaced(body, i, j, v) ==
    SubSeq(body, 1, i - 1) \o <<v>> \o SubSeq(body, j + 1, Len(body))

\* C7: an octal escape at any position of the body, the very start included,
\* consumes the maximal run of up to three octal digits and yields the one
\* code unit of that value; the body \101 gives the single byte 41 (hex).
\* Stated for bodies with a single backslash and a value that fits a byte.
C7_OctalEscape ==
    Transcoded =>
        LET body == TokenBody(token) IN
        /\ \A i \in Backslashes(body) :
             (Backslashes(body) = {i} /\ i < Len(body) /\ IsOctalDigit(body[i + 1]))
             => LET n == OctalRun(body, i + 1)
                    value == OctalValue(SubSeq(body, i + 1, i + n))
                IN value <= 255
                   => resolved = Some(Replaced(body, i, i + n, value))
        /\ token = Quoted(<<>>, <<BACKSLASH, CH_1, CH_0, CH_1>>)
             => bytes = Ok(<<65>>)

\* the value of a simple escape, by its letter
EscapeValue(c) ==
    CASE c = CH_a -> 7 [] c = CH_b -> 8 [] c = CH_t -> 9 [] c = CH_n -> 10
      [] c = CH_v -> 11 [] c = CH_f -> 12 [] c = CH_r -> 13
      [] c = BACKSLASH -> 92 [] c = SPACE -> 32

\* C8: a simple escape at any position of the body, position 0 included, is
\* replaced by its single character value; a\tb gives 61 09 62 and \ta
\* gives 09 61 (hex).  Stated for bodies with a single escape.
C8_SimpleEscape ==
    Transcoded =>
        LET body == TokenBody(token) IN
        /\ \A i \in Backslashes(body) :
             (/\ i < Len(body)
              /\ body[i + 1] \in {CH_a, CH_b, CH_t, CH_n, CH_v, CH_f, CH_r,
                                  BACKSLASH, SPACE}
              /\ Backslashes(body) \subseteq {i, i + 1})
             => resolved = Some(Replaced(body, i, i + 1, EscapeValue(body[i + 1])))
        /\ token = Quoted(<<>>, <<CH_a, BACKSLASH, CH_t, CH_b>>)
             => bytes = Ok(<<97, 9, 98>>)
        /\ token = Quoted(<<>>, <<BACKSLASH, CH_t, CH_a>>)
             => bytes = Ok(<<9, 97>>)

\* C10: an octal escape of value 400..777 (octal) is truncated to its low 8
\* bits and transcoding succeeds, under every target encoding.
C10_OctalTruncation ==
    Transcoded =>
        LET body == TokenBody(token) IN
        \A i \in Backslashes(body) :
            (/\ Backslashes(body) = {i}
             /\ i + 3 <= Len(body)
             /\ \A k \in 1..3 : IsOctalDigit(body[i + k])
             /\ OctalValue(SubSeq(body, i + 1, i + 3)) > 255)
            => /\ bytes.tag = "Ok"
               /\ resolved
                    = Some(Replaced(body, i, i + 3,
                                    OctalValue(SubSeq(body, i + 1, i + 3)) % 256))

\* the escaped body read left to right: one item per ordinary character and
\* one per escape sequence (a backslash with a maximal run of up to three
\* octal digits, or a backslash with the one character after it); a
\* backslash that ends the body is the item "dangling"
RECURSIVE BodyItems(_)
BodyItems(body) ==
    IF body = <<>> THEN <<>>
    ELSE IF Head(body) # BACKSLASH
    THEN <<[kind |-> "ordinary", char |-> Head(body)]>> \o BodyItems(Tail(body))
    ELSE IF Len(body) = 1 THEN <<[kind |-> "dangling", char |-> BACKSLASH]>>
    ELSE IF IsOctalDigit(body[2])
    THEN <<[kind |-> "escape", char |-> body[2]]>>
         \o BodyItems(SubSeq(body, 2 + OctalRun(body, 2), Len(body)))
    ELSE <<[kind |-> "escape", char |-> body[2]]>>
         \o BodyItems(SubSeq(body, 3, Len(body)))

ValidBody(body) ==
    \A k \in 1..Len(BodyItems(body)) : BodyItems(body)[k].kind # "dangling"

\* the ordinary characters of a body, in order
OrdinaryChars(body) ==
    LET items == SelectSeq(BodyItems(body), LAMBDA it : it.kind = "ordinary")
    IN [k \in 1..Len(items) |-> items[k].char]

\* a is b with some elements left out
RECURSIVE IsSubsequence(_, _)
IsSubsequence(a, b) ==
    IF a = <<>> THEN TRUE
    ELSE IF b = <<>> THEN FALSE
    ELSE IF Head(a) = Head(b) THEN IsSubsequence(Tail(a), Tail(b))
    ELSE IsSubsequence(a, Tail(b))

\* C11: escape resolution drops no ordinary character: for every valid
\* escaped body, the characters that are not part of an escape sequence all
\* stand in the resolved output, in their original order (the output is
\* they, with the code units of the escapes in between), the character
\* right after an octal escape and the multi-byte characters before the
\* first backslash included.
C11_NoOrdinaryCharDropped ==
    (Transcoded /\ ValidBody(TokenBody(token)) /\ resolved.tag = "Some") =>
        IsSubsequence(OrdinaryChars(TokenBody(token)), resolved.val)

====
